---- MODULE Spec2Model ----
(***************************************************************************)
(* State-machine model of the SurveyChain_FHE contract                     *)
(* (src/unnamed/part_000, lines 138-307).                                  *)
(*                                                                         *)
(* Every external function is one action.  The outcome of a call (success  *)
(* or the revert reason of the first failing require) is a function of the *)
(* state before the call and of the arguments: CreateOutcome,              *)
(* SubmitOutcome, AggregateOutcome, VerifyOutcome.  A call whose outcome   *)
(* is not Ok reverts: the contract storage, the access-control list and    *)
(* the event log keep their values.                                        *)
(*                                                                         *)
(* A ciphertext is modelled by the plaintext it encrypts and by the set of *)
(* respondents whose inputs it combines; the contract never reads either   *)
(* field, it only hands ciphertexts to the FHE library operators below.    *)
(***************************************************************************)
EXTENDS Integers, Sequences, FiniteSets, TLC

(***************************************************************************)
(* Bounds of the model.                                                    *)
(***************************************************************************)
MaxEvents == 5          \* events emitted in a run, over all surveys

(***************************************************************************)
(* Input domains.                                                          *)
(***************************************************************************)
\* A uint32 / euint32 plaintext is kept as two 16-bit limbs <<high, low>>, so
\* that arithmetic wraps at 2^32 exactly as in the contract.
LimbMod == 65536
U32(n) == <<(n \div LimbMod) % LimbMod, n % LimbMod>>
MaxU32 == <<LimbMod - 1, LimbMod - 1>>
AddU32(a, b) ==
    LET low == a[2] + b[2]
        high == a[1] + b[1] + (low \div LimbMod)
    IN <<high % LimbMod, low % LimbMod>>
SurveyIdSet == {"s1", "s2"}
Principals == {"p1", "p2"}
Titles == {"", "a"}
QuestionCounts == {3}
Values == {U32(0), MaxU32}                 \* plaintexts respondents encrypt
ZeroAddress == "0x0"
\* block.timestamp values; the contract stores the timestamp of a creation
\* and never reads it back
BlockTimestamps == {1}

(***************************************************************************)
(* Revert reasons (the spec's error kinds, the code's messages).           *)
(***************************************************************************)
Ok == "ok"
AlreadyExists == "Survey already exists"
NotFound == "Survey does not exist"
Inactive == "Survey is not active"
DuplicateResponse == "Already responded"
InvalidCiphertext == "Invalid encrypted input"
NoResponses == "No responses to aggregate"
AlreadyVerified == "Results already verified"
ProofInvalid == "checkSignatures reverted"
MismatchedClaim == "Decryption verification failed"

VARIABLES
    surveys,        \* mapping(string => Survey)
    results,        \* mapping(string => AggregationResult)
    hasResponded,   \* mapping(string => mapping(address => bool))
    surveyIds,      \* string[]
    events,         \* emitted events, per indexed surveyId topic
    acl,            \* FHE access-control grants made by the contract
    now             \* latest block timestamp

vars == <<surveys, results, hasResponded, surveyIds, events, acl, now>>

(***************************************************************************)
(* FHE library, as the contract uses it.                                   *)
(***************************************************************************)
\* euint32(0): the uninitialized handle
Uninitialized == [pt |-> U32(0), src |-> {}]

\* FHE.isInitialized
IsInitialized(ct) == ct.src # {}

\* FHE.fromExternal: an external input is a ciphertext with an input proof;
\* a proof that does not verify yields no usable ciphertext
FromExternal(ext) ==
    IF ext.proofOk THEN [pt |-> ext.pt, src |-> {ext.from}] ELSE Uninitialized

\* FHE.add on euint32: wrapping addition of the plaintexts
FheAdd(a, b) == [pt |-> AddU32(a.pt, b.pt), src |-> a.src \cup b.src]

\* the plaintext a ciphertext really encrypts
Plain(ct) == ct.pt

\* FHE.checkSignatures(cts, abiEncodedClearValue, decryptionProof): accepts
\* iff the proof is a genuine decryption certificate for exactly this
\* ciphertext and this clear value
CheckSignatures(ct, clear, proof) ==
    /\ proof.signed
    /\ proof.handle = ct
    /\ proof.clear = clear

\* certificates the decryption oracle can have produced: only true
\* decryptions of initialized ciphertexts are ever signed
Genuine(ct) == [handle |-> ct, clear |-> Plain(ct), signed |-> TRUE]
Forged(ct, clear) == [handle |-> ct, clear |-> clear, signed |-> FALSE]

(***************************************************************************)
(* Storage defaults.                                                       *)
(***************************************************************************)
EmptySurvey ==
    [title |-> "", encryptedResponse |-> Uninitialized, participantCount |-> 0,
     questionCount |-> 0, creator |-> ZeroAddress, createdAt |-> 0,
     isActive |-> FALSE]

EmptyResult == [sum |-> U32(0), count |-> 0, isVerified |-> FALSE]

Init ==
    /\ surveys = [s \in SurveyIdSet |-> EmptySurvey]
    /\ results = [s \in SurveyIdSet |-> EmptyResult]
    /\ hasResponded = [s \in SurveyIdSet |-> [p \in Principals |-> FALSE]]
    /\ surveyIds = << >>
    /\ events = [s \in SurveyIdSet |-> << >>]
    /\ acl = [allowThis |-> {}, publicDecrypt |-> {}]
    /\ now = 1

\* variant: an access-control grant made before the failing require
\* survives the revert
Revert_LeavesGrant ==
    /\ acl' = [acl EXCEPT !.allowThis = @ \cup {Uninitialized}]
    /\ UNCHANGED <<surveys, results, hasResponded, surveyIds, events, now>>

\* a reverted call: every write of the transaction is rolled back
Revert == UNCHANGED vars

\* number of events emitted so far
RECURSIVE TotalEvents(_)
TotalEvents(ids) ==
    IF ids = {} THEN 0
    ELSE LET s == CHOOSE x \in ids : TRUE
         IN Len(events[s]) + TotalEvents(ids \ {s})

\* room left in the event log (model bound)
CanEmit(id) == TotalEvents(SurveyIdSet) < MaxEvents

(***************************************************************************)
(* createSurvey                                                            *)
(***************************************************************************)
\* bytes(surveys[surveyId].title).length
TitleLength(id) == Len(surveys[id].title)

\* variant: the existence check left out
CreateOutcome_NoCheck(id) == Ok

CreateOutcome(id) ==
    IF TitleLength(id) # 0 THEN AlreadyExists ELSE Ok

createSurvey(sender, surveyId, title, questionCount, ts) ==
    LET err == CreateOutcome(surveyId) IN
    IF err # Ok
    THEN Revert
    ELSE /\ CanEmit(surveyId)
         /\ surveys' = [surveys EXCEPT ![surveyId] =
                [title |-> title, encryptedResponse |-> Uninitialized,
                 participantCount |-> 0, questionCount |-> questionCount,
                 creator |-> sender, createdAt |-> ts, isActive |-> TRUE]]
         /\ surveyIds' = Append(surveyIds, surveyId)
         /\ events' = [events EXCEPT ![surveyId] =
                Append(@, <<"SurveyCreated", surveyId, sender>>)]
         /\ now' = ts
         /\ UNCHANGED <<results, hasResponded, acl>>

(***************************************************************************)
(* submitResponse                                                          *)
(***************************************************************************)
\* variant: the "Invalid encrypted input" check left out
SubmitOutcome_NoValidityCheck(sender, id, ext) ==
    IF ~(TitleLength(id) > 0) THEN NotFound
    ELSE IF ~surveys[id].isActive THEN Inactive
    ELSE IF hasResponded[id][sender] THEN DuplicateResponse
    ELSE Ok

\* variant: the "Already responded" check left out
SubmitOutcome_NoDuplicateCheck(sender, id, ext) ==
    IF ~(TitleLength(id) > 0) THEN NotFound
    ELSE IF ~surveys[id].isActive THEN Inactive
    ELSE IF ~IsInitialized(FromExternal(ext)) THEN InvalidCiphertext
    ELSE Ok

\* variant: the "Already responded" check made before the activity check
SubmitOutcome_DuplicateFirst(sender, id, ext) ==
    IF ~(TitleLength(id) > 0) THEN NotFound
    ELSE IF hasResponded[id][sender] THEN DuplicateResponse
    ELSE IF ~surveys[id].isActive THEN Inactive
    ELSE IF ~IsInitialized(FromExternal(ext)) THEN InvalidCiphertext
    ELSE Ok

\* variant: responses are refused as soon as a claim has been recorded
SubmitOutcome_FrozenAtAggregate(sender, id, ext) ==
    IF ~(TitleLength(id) > 0) THEN NotFound
    ELSE IF ~surveys[id].isActive \/ results[id].count # 0 THEN Inactive
    ELSE IF hasResponded[id][sender] THEN DuplicateResponse
    ELSE IF ~IsInitialized(FromExternal(ext)) THEN InvalidCiphertext
    ELSE Ok

SubmitOutcome(sender, id, ext) ==
    IF ~(TitleLength(id) > 0) THEN NotFound
    ELSE IF ~surveys[id].isActive THEN Inactive
    ELSE IF hasResponded[id][sender] THEN DuplicateResponse
    ELSE IF ~IsInitialized(FromExternal(ext)) THEN InvalidCiphertext
    ELSE Ok

\* FHE.allowThis and FHE.makePubliclyDecryptable on the imported input
GrantOnInput(encryptedValue) ==
    [allowThis |-> acl.allowThis \cup {encryptedValue},
     publicDecrypt |-> acl.publicDecrypt \cup {encryptedValue}]

\* variant: the accumulator is replaced by the new input, never added to
Accumulate_Replace(id, encryptedValue) == encryptedValue

\* the accumulator after taking in one more response
Accumulate(id, encryptedValue) ==
    IF surveys[id].participantCount = 0
    THEN encryptedValue
    ELSE FheAdd(surveys[id].encryptedResponse, encryptedValue)

\* variant: the survey's participation map is replaced by one that holds the
\* sender only
MarkResponded_Overwrite(id, sender) ==
    [hasResponded EXCEPT ![id] = [p \in DOMAIN hasResponded[id] |-> p = sender]]

\* variant: participation is keyed by the principal alone, so the mark is set
\* in every survey
MarkResponded_AllSurveys(id, sender) ==
    [s \in DOMAIN hasResponded |-> [hasResponded[s] EXCEPT ![sender] = TRUE]]

\* hasResponded[surveyId][msg.sender] = true
MarkResponded(id, sender) ==
    [hasResponded EXCEPT ![id][sender] = TRUE]

submitResponse(sender, surveyId, ext) ==
    LET err == SubmitOutcome(sender, surveyId, ext)
        encryptedValue == FromExternal(ext)
    IN
    IF err # Ok
    THEN Revert
    ELSE /\ CanEmit(surveyId)
         /\ acl' = GrantOnInput(encryptedValue)
         /\ surveys' = [surveys EXCEPT ![surveyId] =
                [@ EXCEPT !.encryptedResponse = Accumulate(surveyId, encryptedValue),
                          !.participantCount = @ + 1]]
         /\ hasResponded' = MarkResponded(surveyId, sender)
         /\ events' = [events EXCEPT ![surveyId] =
                Append(@, <<"ResponseSubmitted", surveyId, sender>>)]
         /\ UNCHANGED <<results, surveyIds, now>>

(***************************************************************************)
(* aggregateResults                                                        *)
(***************************************************************************)
\* variant: neither the activity check nor the verified check is made
AggregateOutcome_NoLifecycleChecks(id) ==
    IF ~(TitleLength(id) > 0) THEN NotFound
    ELSE IF ~(surveys[id].participantCount > 0) THEN NoResponses
    ELSE Ok

\* variant: a survey that already holds a claim cannot be aggregated again
AggregateOutcome_OnceOnly(id) ==
    IF ~(TitleLength(id) > 0) THEN NotFound
    ELSE IF ~surveys[id].isActive THEN Inactive
    ELSE IF ~(surveys[id].participantCount > 0) THEN NoResponses
    ELSE IF results[id].count # 0 THEN AlreadyVerified
    ELSE Ok

\* variant: the "Results already verified" check made first
AggregateOutcome_VerifiedFirst(id) ==
    IF results[id].isVerified THEN AlreadyVerified
    ELSE IF ~(TitleLength(id) > 0) THEN NotFound
    ELSE IF ~surveys[id].isActive THEN Inactive
    ELSE IF ~(surveys[id].participantCount > 0) THEN NoResponses
    ELSE Ok

AggregateOutcome(id) ==
    IF ~(TitleLength(id) > 0) THEN NotFound
    ELSE IF ~surveys[id].isActive THEN Inactive
    ELSE IF ~(surveys[id].participantCount > 0) THEN NoResponses
    ELSE IF results[id].isVerified THEN AlreadyVerified
    ELSE Ok

\* values FHE.decrypt(encryptedSum) can hand back: the decryption oracle is
\* outside the contract and its answer is not trusted until verifyResults
ClaimValues == {U32(0)}
DecryptClaims(ct) == {Plain(ct)} \cup ClaimValues

\* variant: the question count stored in place of the participant count
CountAsUint32_QuestionCount(id) == surveys[id].questionCount

\* uint32(surveys[surveyId].participantCount)
CountAsUint32(id) ==
    LET n == U32(surveys[id].participantCount) IN n[1] * LimbMod + n[2]

aggregateResults(sender, surveyId, sum) ==
    LET err == AggregateOutcome(surveyId) IN
    IF err # Ok
    THEN Revert
    ELSE /\ CanEmit(surveyId)
         /\ sum \in DecryptClaims(surveys[surveyId].encryptedResponse)
         /\ results' = [results EXCEPT ![surveyId] =
                [sum |-> sum, count |-> CountAsUint32(surveyId), isVerified |-> FALSE]]
         /\ events' = [events EXCEPT ![surveyId] =
                Append(@, <<"ResultsAggregated", surveyId, sum, CountAsUint32(surveyId)>>)]
         /\ UNCHANGED <<surveys, hasResponded, surveyIds, acl, now>>

(***************************************************************************)
(* verifyResults                                                           *)
(***************************************************************************)
\* variant: the comparison with the stored sum left out
VerifyOutcome_NoSumCheck(id, clear, proof) ==
    IF ~(TitleLength(id) > 0) THEN NotFound
    ELSE IF results[id].isVerified THEN AlreadyVerified
    ELSE IF ~CheckSignatures(surveys[id].encryptedResponse, clear, proof) THEN ProofInvalid
    ELSE Ok

\* variant: the "Results already verified" check left out
VerifyOutcome_NoVerifiedCheck(id, clear, proof) ==
    IF ~(TitleLength(id) > 0) THEN NotFound
    ELSE IF ~CheckSignatures(surveys[id].encryptedResponse, clear, proof) THEN ProofInvalid
    ELSE IF ~(clear = results[id].sum) THEN MismatchedClaim
    ELSE Ok

VerifyOutcome(id, clear, proof) ==
    IF ~(TitleLength(id) > 0) THEN NotFound
    ELSE IF results[id].isVerified THEN AlreadyVerified
    ELSE IF ~CheckSignatures(surveys[id].encryptedResponse, clear, proof) THEN ProofInvalid
    ELSE IF ~(clear = results[id].sum) THEN MismatchedClaim
    ELSE Ok

\* results[surveyId].isVerified = true
VerifiedResult(id) == [results[id] EXCEPT !.isVerified = TRUE]

\* variant: the survey is left active
ClosedSurvey_StillActive(id) == surveys[id]

\* surveys[surveyId].isActive = false
ClosedSurvey(id) == [surveys[id] EXCEPT !.isActive = FALSE]

verifyResults(sender, surveyId, clear, proof) ==
    LET err == VerifyOutcome(surveyId, clear, proof) IN
    IF err # Ok
    THEN Revert
    ELSE /\ CanEmit(surveyId)
         /\ results' = [results EXCEPT ![surveyId] = VerifiedResult(surveyId)]
         /\ surveys' = [surveys EXCEPT ![surveyId] = ClosedSurvey(surveyId)]
         /\ events' = [events EXCEPT ![surveyId] =
                Append(@, <<"ResultsVerified", surveyId>>)]
         /\ UNCHANGED <<hasResponded, surveyIds, acl, now>>

(***************************************************************************)
(* Inputs the environment can supply.                                      *)
(***************************************************************************)
\* external inputs a sender can build: any value, with or without a proof
\* that verifies
ExternalInputs(sender) ==
    [pt : Values, from : {sender}, proofOk : BOOLEAN]

\* ciphertexts that exist on chain
KnownCiphertexts ==
    {surveys[s].encryptedResponse : s \in SurveyIdSet} \cup acl.publicDecrypt

\* clear values a caller of verifyResults can claim: the true plaintext of
\* the accumulator, the recorded claim, or something else
ClearInputs(id) ==
    {Plain(surveys[id].encryptedResponse), results[id].sum, U32(1)}

\* decryption proofs a caller can present: genuine certificates of any
\* initialized on-chain ciphertext, or a forgery for the one under check
ProofInputs(id, clear) ==
    {Genuine(c) : c \in {k \in KnownCiphertexts : IsInitialized(k)}}
        \cup {Forged(surveys[id].encryptedResponse, clear)}

Next ==
    \/ \E sender \in Principals, id \in SurveyIdSet, title \in Titles,
          qc \in QuestionCounts, ts \in {t \in BlockTimestamps : t >= now} :
            createSurvey(sender, id, title, qc, ts)
    \/ \E sender \in Principals, id \in SurveyIdSet :
          \E ext \in ExternalInputs(sender) :
            submitResponse(sender, id, ext)
    \/ \E sender \in Principals, id \in SurveyIdSet :
          \E sum \in DecryptClaims(surveys[id].encryptedResponse) :
            aggregateResults(sender, id, sum)
    \/ \E sender \in Principals, id \in SurveyIdSet :
          \E clear \in ClearInputs(id) :
            \E proof \in ProofInputs(id, clear) :
              verifyResults(sender, id, clear, proof)

Spec == Init /\ [][Next]_vars

(***************************************************************************)
(* History read off the event log.                                         *)
(***************************************************************************)
EventName(e) == e[1]

\* positions in the log of survey id holding an event of the given name
Positions(id, name) == {i \in DOMAIN events[id] : EventName(events[id][i]) = name}

\* number of responses of principal p accepted for survey id
AcceptedResponses(id, p) ==
    Cardinality({i \in DOMAIN events[id] : events[id][i] = <<"ResponseSubmitted", id, p>>})

\* createSurvey / verifyResults has succeeded for id
CreateSucceeded(id) == Positions(id, "SurveyCreated") # {}
VerifySucceeded(id) == Positions(id, "ResultsVerified") # {}

\* the part of the state that belongs to one survey
SurveyState(id) == <<surveys[id], results[id], hasResponded[id]>>

(***************************************************************************)
(* C1  Exactly-once participation.                                         *)
(***************************************************************************)
\* C1 (as stated): no principal has more than one accepted response per
\* survey, and a submitResponse by a principal whose hasResponded flag is
\* set is rejected with DuplicateResponse.
C1_DuplicateAlwaysRejectedAsDuplicate ==
    \A id \in SurveyIdSet, p \in Principals :
        /\ AcceptedResponses(id, p) <= 1
        /\ hasResponded[id][p] =>
              \A ext \in ExternalInputs(p) :
                  SubmitOutcome(p, id, ext) = DuplicateResponse

\* C1 (amended): no principal has more than one accepted response per
\* survey; a submitResponse by a principal whose hasResponded flag is set is
\* rejected - with DuplicateResponse while the survey is active, with
\* Inactive once it is finalized - and no step that changes the survey's
\* participantCount, accumulator or participation set is such a call.
C1_ExactlyOnceParticipation ==
    /\ [](\A id \in SurveyIdSet, p \in Principals :
            /\ AcceptedResponses(id, p) <= 1
            /\ hasResponded[id][p] =>
                  \A ext \in ExternalInputs(p) :
                      SubmitOutcome(p, id, ext) =
                          IF surveys[id].isActive THEN DuplicateResponse ELSE Inactive)
    /\ [][\A id \in SurveyIdSet, p \in Principals :
            (/\ hasResponded[id][p]
             /\ <<surveys[id], hasResponded[id]>>' # <<surveys[id], hasResponded[id]>>)
                => \A ext \in ExternalInputs(p) : ~submitResponse(p, id, ext)]_vars

\* C1 witness: a principal has responded to a survey that is still active and
\* holds a second respondent's answer too; a further valid submission of
\* that principal is a duplicate
C1_Witness ==
    \E id \in SurveyIdSet, p \in Principals :
        /\ hasResponded[id][p]
        /\ surveys[id].isActive
        /\ surveys[id].participantCount = 2
        /\ SubmitOutcome(p, id, [pt |-> MaxU32, from |-> p, proofOk |-> TRUE])
              = DuplicateResponse

(***************************************************************************)
(* C2  Trusted result.                                                     *)
(***************************************************************************)
\* C2: whenever a survey's AggregationResult is verified, the stored sum is
\* the true plaintext of the accumulator the survey holds.
C2_TrustedResult ==
    \A id \in SurveyIdSet :
        results[id].isVerified =>
            results[id].sum = Plain(surveys[id].encryptedResponse)

\* C2 witness: a verified result over two responses whose sum wrapped
\* around 2^32
C2_Witness ==
    \E id \in SurveyIdSet :
        /\ results[id].isVerified
        /\ surveys[id].participantCount = 2
        /\ results[id].sum = AddU32(MaxU32, MaxU32)
        /\ results[id].sum = <<LimbMod - 1, LimbMod - 2>>

(***************************************************************************)
(* C3  verified implies inactive.                                          *)
(***************************************************************************)
\* C3: for every survey, AggregationResult.verified = true implies
\* Survey.isActive = false.
C3_VerifiedImpliesInactive ==
    \A id \in SurveyIdSet : results[id].isVerified => ~surveys[id].isActive

\* C3 witness: one survey verified while another is still active
C3_Witness ==
    \E id, other \in SurveyIdSet :
        /\ results[id].isVerified
        /\ ~surveys[id].isActive
        /\ surveys[other].isActive

(***************************************************************************)
(* C4  No submission after finalization.                                   *)
(***************************************************************************)
\* C4: once verifyResults has succeeded for a survey, every submitResponse on
\* it - by any principal, with any ciphertext - fails with Inactive.
C4_SubmitAfterVerifyIsInactive ==
    \A id \in SurveyIdSet :
        VerifySucceeded(id) =>
            \A p \in Principals :
                \A ext \in ExternalInputs(p) :
                    SubmitOutcome(p, id, ext) = Inactive

\* C4 witness: a finalized survey with one principal who responded and one
\* who did not
C4_Witness ==
    \E id \in SurveyIdSet :
        /\ VerifySucceeded(id)
        /\ \E p, q \in Principals : hasResponded[id][p] /\ ~hasResponded[id][q]

(***************************************************************************)
(* C5  Finalization is terminal.                                           *)
(***************************************************************************)
\* C5: after verifyResults has succeeded for a survey, no step changes that
\* survey's record (accumulator, participantCount, isActive), its
\* participation set or its AggregationResult.
C5_FinalizationIsTerminal ==
    [][\A id \in SurveyIdSet :
          VerifySucceeded(id) => SurveyState(id)' = SurveyState(id)]_vars

\* C5 witness: a survey was finalized and the other survey was created or
\* used as well
C5_Witness ==
    \E id, other \in SurveyIdSet :
        /\ id # other
        /\ VerifySucceeded(id)
        /\ surveys[other].participantCount > 0

(***************************************************************************)
(* C6  verify succeeds at most once.                                       *)
(***************************************************************************)
\* C6: a verifyResults call after a successful one fails with
\* AlreadyVerified, at most one verification happens per survey, and no step
\* resets the verified flag.
C6_VerifyAtMostOnce ==
    /\ [](\A id \in SurveyIdSet :
            /\ Cardinality(Positions(id, "ResultsVerified")) <= 1
            /\ VerifySucceeded(id) <=> results[id].isVerified
            /\ VerifySucceeded(id) =>
                  \A clear \in ClearInputs(id) :
                      \A proof \in ProofInputs(id, clear) :
                          VerifyOutcome(id, clear, proof) = AlreadyVerified)
    /\ [][\A id \in SurveyIdSet :
            results[id].isVerified => results'[id].isVerified]_vars

\* C6 witness: a survey was aggregated, then verified; a genuine proof for
\* its accumulator is still at hand
C6_Witness ==
    \E id \in SurveyIdSet :
        /\ results[id].isVerified
        /\ Positions(id, "ResultsAggregated") # {}
        /\ Genuine(surveys[id].encryptedResponse) \in
              ProofInputs(id, Plain(surveys[id].encryptedResponse))

(***************************************************************************)
(* C7  Stale-claim guard.                                                  *)
(***************************************************************************)
\* C7: verifyResults never finalizes a claim against an accumulator that has
\* changed since the claim was recorded: between the last successful
\* aggregateResults before a successful verifyResults and that
\* verifyResults, no response was accepted.
C7_StaleClaimGuard ==
    \A id \in SurveyIdSet :
        \A v \in Positions(id, "ResultsVerified") :
            \A a \in Positions(id, "ResultsAggregated") :
                (/\ a < v
                 /\ \A b \in Positions(id, "ResultsAggregated") : b < v => b <= a)
                    => \A r \in Positions(id, "ResponseSubmitted") : ~(a < r /\ r < v)

(***************************************************************************)
(* C8  Lifecycle ordering.                                                 *)
(***************************************************************************)
\* C8: every successful verifyResults on a survey is preceded by a
\* successful aggregateResults on that survey.
C8_VerifyOnlyAfterAggregate ==
    \A id \in SurveyIdSet :
        \A v \in Positions(id, "ResultsVerified") :
            \E a \in Positions(id, "ResultsAggregated") : a < v

(***************************************************************************)
(* C9  Individual responses stay confidential.                             *)
(***************************************************************************)
\* C9: no ciphertext of a single respondent's submission is ever made
\* publicly decryptable; whatever is released for decryption is an
\* aggregate.
C9_IndividualResponsesConfidential ==
    \A ct \in acl.publicDecrypt : Cardinality(ct.src) > 1

(***************************************************************************)
(* C10  Survey identifiers are unique.                                     *)
(***************************************************************************)
\* C10: createSurvey with an identifier that was already successfully
\* created fails with AlreadyExists, so the identifier list never holds an
\* identifier twice.
C10_IdentifiersUnique ==
    /\ \A id \in SurveyIdSet :
          CreateSucceeded(id) => CreateOutcome(id) = AlreadyExists
    /\ \A i, j \in DOMAIN surveyIds : surveyIds[i] = surveyIds[j] => i = j

LastAggregated(id) ==
    CHOOSE a \in Positions(id, "ResultsAggregated") :
        \A b \in Positions(id, "ResultsAggregated") : b <= a

\* responses accepted for id before position a of its log
ResponsesBefore(id, a) ==
    Cardinality({r \in Positions(id, "ResponseSubmitted") : r < a})

\* C12: AggregationResult.count of a survey equals the number of responses
\* the survey had accepted at the moment of the most recent successful
\* aggregateResults on it.
C12_CountIsSnapshot ==
    \A id \in SurveyIdSet :
        Positions(id, "ResultsAggregated") # {} =>
            results[id].count = ResponsesBefore(id, LastAggregated(id))

\* C12 witness: a response was accepted after the aggregation, so the stored
\* count (1) is the snapshot and not the current participantCount (2)
C12_Witness ==
    \E id \in SurveyIdSet :
        /\ Positions(id, "ResultsAggregated") # {}
        /\ results[id].count = 1
        /\ surveys[id].participantCount = 2

(***************************************************************************)
(* C13  Aggregation needs a response.                                      *)
(***************************************************************************)
\* C13: aggregateResults on a survey that was created and has
\* participantCount 0 fails with NoResponses.
C13_AggregateWithoutResponses ==
    \A id \in SurveyIdSet :
        (CreateSucceeded(id) /\ surveys[id].participantCount = 0)
            => AggregateOutcome(id) = NoResponses

(***************************************************************************)
(* C14  How often a survey is aggregated.                                  *)
(***************************************************************************)
\* C14 (as stated): a survey is aggregated at most once in its lifetime.
C14_AggregatedAtMostOnce ==
    \A id \in SurveyIdSet :
        Cardinality(Positions(id, "ResultsAggregated")) <= 1

\* C14 (amended): a survey can be aggregated repeatedly while it is active
\* and unverified; once verifyResults has succeeded, no aggregateResults on
\* the survey succeeds, so every aggregation precedes the verification.
C14_NoAggregateAfterVerify ==
    \A id \in SurveyIdSet :
        VerifySucceeded(id) =>
            /\ AggregateOutcome(id) # Ok
            /\ \A a \in Positions(id, "ResultsAggregated") :
                  \A v \in Positions(id, "ResultsVerified") : a < v

\* C14 witness: a survey was aggregated twice and then verified
C14_Witness ==
    \E id \in SurveyIdSet :
        /\ Cardinality(Positions(id, "ResultsAggregated")) = 2
        /\ VerifySucceeded(id)

(***************************************************************************)
(* C15  The accumulator is present iff there are participants.             *)
(***************************************************************************)
\* C15: for every survey, the encrypted accumulator is initialized if and
\* only if participantCount >= 1.
C15_AccumulatorIffParticipants ==
    \A id \in SurveyIdSet :
        IsInitialized(surveys[id].encryptedResponse)
            <=> surveys[id].participantCount >= 1

\* C15 witness: a created survey without responses and without accumulator
\* next to a survey holding the sum of two responses
C15_Witness ==
    \E id, other \in SurveyIdSet :
        /\ CreateSucceeded(id)
        /\ surveys[id].participantCount = 0
        /\ ~IsInitialized(surveys[id].encryptedResponse)
        /\ surveys[other].participantCount = 2
        /\ IsInitialized(surveys[other].encryptedResponse)

(***************************************************************************)
(* C16  hasResponded is monotonic.                                         *)
(***************************************************************************)
\* C16: once hasResponded[survey, principal] is true, it is true in every
\* later state, whatever operation runs on whatever survey.
C16_HasRespondedMonotonic ==
    [][\A id \in SurveyIdSet, p \in Principals :
          hasResponded[id][p] => hasResponded'[id][p]]_vars

\* C16 witness: both principals have responded to a survey, which was then
\* aggregated and verified
C16_Witness ==
    \E id \in SurveyIdSet :
        /\ \A p \in Principals : hasResponded[id][p]
        /\ Positions(id, "ResultsAggregated") # {}
        /\ VerifySucceeded(id)

(***************************************************************************)
(* C17  Order independence of accumulation.                                *)
(*                                                                         *)
(* A second specification: one survey, three respondents, only createSurvey *)
(* and submitResponse.  TLC runs through every order in which the          *)
(* respondents can submit.                                                 *)
(***************************************************************************)
Respondents == Principals \cup {"p3"}
OrderSurvey == "s1"

InitOrder ==
    /\ surveys = [s \in SurveyIdSet |-> EmptySurvey]
    /\ results = [s \in SurveyIdSet |-> EmptyResult]
    /\ hasResponded = [s \in SurveyIdSet |-> [p \in Respondents |-> FALSE]]
    /\ surveyIds = << >>
    /\ events = [s \in SurveyIdSet |-> << >>]
    /\ acl = [allowThis |-> {}, publicDecrypt |-> {}]
    /\ now = 1

NextOrder ==
    \/ \E sender \in Respondents, title \in Titles, qc \in QuestionCounts,
          ts \in {t \in BlockTimestamps : t >= now} :
            createSurvey(sender, OrderSurvey, title, qc, ts)
    \/ \E sender \in Respondents :
          \E ext \in ExternalInputs(sender) :
            submitResponse(sender, OrderSurvey, ext)

SpecOrder == InitOrder /\ [][NextOrder]_vars

\* the sum mod 2^32 of the plaintexts of a set of ciphertexts
RECURSIVE SumPlain(_)
SumPlain(cts) ==
    IF cts = {} THEN U32(0)
    ELSE LET c == CHOOSE x \in cts : TRUE
         IN AddU32(Plain(c), SumPlain(cts \ {c}))

\* the inputs accepted so far: one imported ciphertext per respondent
AcceptedInputs == acl.publicDecrypt

\* C17: whatever the order in which valid submissions of distinct principals
\* were processed, the accumulator encrypts the sum of the submitted values
\* and combines exactly the respondents' inputs, participantCount is their
\* number and the participation set is the set of their senders: the final
\* state depends on the set of submissions only.
C17_OrderIndependence ==
    LET responded == {p \in Respondents : hasResponded[OrderSurvey][p]} IN
    /\ {c.src : c \in AcceptedInputs} = {{p} : p \in responded}
    /\ Cardinality(AcceptedInputs) = Cardinality(responded)
    /\ surveys[OrderSurvey].encryptedResponse =
          [pt |-> SumPlain(AcceptedInputs), src |-> responded]
    /\ surveys[OrderSurvey].participantCount = Cardinality(responded)

\* C17 witness: all three respondents have submitted, two of them the largest
\* value and one zero, and the sum has wrapped around 2^32
C17_Witness ==
    /\ \A p \in Respondents : hasResponded[OrderSurvey][p]
    /\ surveys[OrderSurvey].participantCount = 3
    /\ [pt |-> U32(0), src |-> {"p2"}] \in AcceptedInputs
    /\ Plain(surveys[OrderSurvey].encryptedResponse) = AddU32(MaxU32, MaxU32)

C19_AggregationByCreatorOnly ==
    [][\A id \in SurveyIdSet, sender \in Principals :
          (/\ results'[id] # results[id]
           /\ sender # surveys[id].creator)
              => \A sum \in DecryptClaims(surveys[id].encryptedResponse) :
                    ~aggregateResults(sender, id, sum)]_vars

(***************************************************************************)
(* C20  Re-aggregation before verification.                                *)
(***************************************************************************)
\* the event a step appended to the log of id, <<>> when it appended none
Appended(id) ==
    IF Len(events'[id]) > Len(events[id]) THEN events'[id][Len(events'[id])] ELSE <<>>

\* C20: while a survey holds an unverified AggregationResult and is active,
\* a further aggregateResults succeeds; and every such further aggregation
\* overwrites the result with a claim of the oracle for the current
\* accumulator, count = the current participantCount, and isVerified = false.
C20_ReaggregationRefreshes ==
    /\ [](\A id \in SurveyIdSet :
             (/\ Positions(id, "ResultsAggregated") # {}
              /\ ~results[id].isVerified
              /\ surveys[id].isActive)
                 => AggregateOutcome(id) = Ok)
    /\ [][\A id \in SurveyIdSet :
             (/\ Positions(id, "ResultsAggregated") # {}
              /\ Appended(id) # <<>>
              /\ EventName(Appended(id)) = "ResultsAggregated")
                 => /\ results'[id].sum \in DecryptClaims(surveys[id].encryptedResponse)
                    /\ results'[id].count = surveys[id].participantCount
                    /\ ~results'[id].isVerified]_vars

\* C20 witness: a survey aggregated with one response and aggregated again
\* with two; the stored claim is the second one
C20_Witness ==
    \E id \in SurveyIdSet :
        /\ Cardinality(Positions(id, "ResultsAggregated")) = 2
        /\ \E a \in Positions(id, "ResultsAggregated") : events[id][a][4] = 1
        /\ results[id].count = 2
        /\ surveys[id].participantCount = 2
        /\ ~results[id].isVerified

(***************************************************************************)
(* C21  Responses between aggregation and verification.                    *)
(***************************************************************************)
\* aggregateResults has succeeded for id and verifyResults has not
PendingVerification(id) ==
    Positions(id, "ResultsAggregated") # {} /\ ~results[id].isVerified

\* C21: a survey in PendingVerification is still active and accepts the
\* valid input of every principal who has not responded; and every response
\* accepted in that state changes the accumulator and adds one to
\* participantCount while the stored AggregationResult stays as it was.
C21_AcceptsUntilVerified ==
    /\ [](\A id \in SurveyIdSet :
             PendingVerification(id) =>
                 /\ surveys[id].isActive
                 /\ \A p \in Principals :
                       ~hasResponded[id][p] =>
                           \A ext \in {e \in ExternalInputs(p) : e.proofOk} :
                               SubmitOutcome(p, id, ext) = Ok)
    /\ [][\A id \in SurveyIdSet :
             (/\ PendingVerification(id)
              /\ Appended(id) # <<>>
              /\ EventName(Appended(id)) = "ResponseSubmitted")
                 => /\ surveys'[id].encryptedResponse # surveys[id].encryptedResponse
                    /\ surveys'[id].participantCount = surveys[id].participantCount + 1
                    /\ surveys'[id].isActive
                    /\ results'[id] = results[id]]_vars

\* C21 witness: a response was accepted after the aggregation and before any
\* verification; the claim still holds the earlier count
C21_Witness ==
    \E id \in SurveyIdSet :
        /\ PendingVerification(id)
        /\ \E r \in Positions(id, "ResponseSubmitted") : r > LastAggregated(id)
        /\ results[id].count < surveys[id].participantCount
        /\ surveys[id].isActive

(***************************************************************************)
(* C22  The identifier list.                                               *)
(***************************************************************************)
\* getAllSurveyIds(): the stored array, as it is
getAllSurveyIds == surveyIds

\* C22: the identifier list holds every successfully created identifier and
\* holds it exactly once; a step either leaves the list as it was or is a
\* successful createSurvey that appends its identifier, so that the list is
\* in creation order and no other call changes it.
C22_ListIdsCreationOrder ==
    /\ [](/\ \A id \in SurveyIdSet :
                CreateSucceeded(id) <=>
                    \E i \in DOMAIN getAllSurveyIds : getAllSurveyIds[i] = id
          /\ \A i, j \in DOMAIN getAllSurveyIds :
                getAllSurveyIds[i] = getAllSurveyIds[j] => i = j)
    /\ [][\/ getAllSurveyIds' = getAllSurveyIds
          \/ \E id \in SurveyIdSet :
                /\ getAllSurveyIds' = Append(getAllSurveyIds, id)
                /\ Appended(id) # <<>>
                /\ EventName(Appended(id)) = "SurveyCreated"]_vars

(***************************************************************************)
(* C23  participantCount counts the participation set.                     *)
(***************************************************************************)
\* principals marked as having responded to id
RespondedSet(id) == {p \in DOMAIN hasResponded[id] : hasResponded[id][p]}

\* C23: for every survey, participantCount equals the number of principals
\* p with hasResponded[survey][p] = true.
C23_CountMatchesParticipation ==
    \A id \in SurveyIdSet :
        surveys[id].participantCount = Cardinality(RespondedSet(id))

\* C23 witness: a survey with two respondents next to a survey that was
\* created and has none
C23_Witness ==
    \E id, other \in SurveyIdSet :
        /\ Cardinality(RespondedSet(id)) = 2
        /\ surveys[id].participantCount = 2
        /\ CreateSucceeded(other)
        /\ RespondedSet(other) = {}

(***************************************************************************)
(* C24  The published count.                                               *)
(***************************************************************************)
\* C24: whenever a survey's AggregationResult is verified, the stored count
\* equals the survey's participantCount.
C24_VerifiedCountIsParticipantCount ==
    \A id \in SurveyIdSet :
        results[id].isVerified =>
            results[id].count = surveys[id].participantCount

(***************************************************************************)
(* C25  "Results already verified" is unreachable in aggregateResults.     *)
(***************************************************************************)
\* C25: aggregateResults never fails with AlreadyVerified: whenever a
\* survey's result is verified the survey is inactive, and the call is
\* rejected by the earlier activity check.
C25_AggregateNeverAlreadyVerified ==
    \A id \in SurveyIdSet :
        /\ AggregateOutcome(id) # AlreadyVerified
        /\ results[id].isVerified =>
               (~surveys[id].isActive /\ AggregateOutcome(id) = Inactive)

\* C25 witness: a verified survey, on which aggregateResults is rejected as
\* inactive
C25_Witness ==
    \E id \in SurveyIdSet :
        /\ results[id].isVerified
        /\ AggregateOutcome(id) = Inactive

(***************************************************************************)
(* C26  Survey isolation.                                                  *)
(***************************************************************************)
\* some call on survey a, by any sender and with any input, is this step
CallOn(a) ==
    \E sender \in Principals :
        \/ \E title \in Titles, qc \in QuestionCounts,
              ts \in {t \in BlockTimestamps : t >= now} :
                createSurvey(sender, a, title, qc, ts)
        \/ \E ext \in ExternalInputs(sender) : submitResponse(sender, a, ext)
        \/ \E sum \in DecryptClaims(surveys[a].encryptedResponse) :
                aggregateResults(sender, a, sum)
        \/ \E clear \in ClearInputs(a) :
              \E proof \in ProofInputs(a, clear) :
                verifyResults(sender, a, clear, proof)

\* C26: a createSurvey, submitResponse, aggregateResults or verifyResults
\* call on survey a, accepted or rejected, leaves the record, accumulator,
\* participantCount, participation set, isActive flag and AggregationResult
\* of every other survey b as they were: no step that changes the state of
\* b is a call on a different survey.
C26_SurveyIsolation ==
    [][\A b \in SurveyIdSet :
          SurveyState(b)' # SurveyState(b) =>
              \A a \in SurveyIdSet \ {b} : ~CallOn(a)]_vars

\* C26 witness: one survey went through responses, aggregation and
\* verification while the other, created as well, is still as created
C26_Witness ==
    \E a, b \in SurveyIdSet :
        /\ a # b
        /\ VerifySucceeded(a)
        /\ surveys[a].participantCount > 0
        /\ CreateSucceeded(b)
        /\ surveys[b].isActive
        /\ surveys[b].participantCount = 0
        /\ results[b] = EmptyResult
        /\ RespondedSet(b) = {}

====
